---- MODULE Spec2Model ----
(***************************************************************************)
(* College-Predictor, the "Compare Colleges" page (CompareColleges): the   *)
(* view state held in React useState cells, the handlers that change it,   *)
(* and the three kinds of HTTP request (search, branches, compare) whose   *)
(* responses are applied by the continuation of the async handler that     *)
(* issued them.  A handler runs to its first await atomically; the part    *)
(* after the await is a separate step taken when the response arrives, in  *)
(* any order with respect to other pending requests.                       *)
(***************************************************************************)
EXTENDS Integers, Sequences, FiniteSets, TLC

(* ---------------------------------------------------------------------- *)
(* Bounds of the model                                                    *)
(* ---------------------------------------------------------------------- *)
\* requests that may be in flight at the same time
MaxInFlight == 2
\* pending 3-second setTimeout callbacks started by rejected selections
MaxTimers == 1
\* requests issued in one session of the page
MaxRequests == 3

(* ---------------------------------------------------------------------- *)
(* Values                                                                 *)
(* ---------------------------------------------------------------------- *)
\* JavaScript undefined (a field that the object does not have)
ABSENT == "undefined"
\* JavaScript null (or a missing object-valued field): the initial value of
\* comparisonData and the `data` of a body that carries none
NULL == [null |-> TRUE]

\* a || b on strings: a unless a is undefined or ''
Truthy(v) == v \notin {ABSENT, ""}
Or(a, b) == IF Truthy(a) THEN a ELSE b

\* the colleges the backend knows; the last one carries its identifier in
\* `code` instead of `college_code` (the shape the JSX falls back to)
College(cc, c) == [college_code |-> cc, code |-> c]
Colleges ==
  { College("A", ABSENT), College("B", ABSENT), College("C", ABSENT),
    College(ABSENT, "X") }

\* the branches the backend knows, again in both shapes
Branch(bc, c) == [branch_code |-> bc, code |-> c]
BranchCS == Branch("CS", ABSENT)
BranchIT == Branch(ABSENT, "IT")
BranchLists == { <<>>, <<BranchIT, BranchCS>> }
CollegeLists ==
  { <<>>,
    <<College("A", ABSENT), College("B", ABSENT), College("C", ABSENT),
      College(ABSENT, "X")>> }

\* search box contents: empty, one character, two or more characters
Queries == { "", "p", "pu" }
StrLen(q) == CASE q = "" -> 0 [] q = "p" -> 1 [] OTHER -> 2

Kinds == { "search", "branches", "compare" }

RemoveAt(s, i) == [ j \in 1..(Len(s) - 1) |-> IF j < i THEN s[j] ELSE s[j + 1] ]
\* selection.map(c => c.college_code)
CodesOf(sel) == [ i \in 1..Len(sel) |-> sel[i].college_code ]
\* a plausible slip: no fallback to the code field
BranchCodeOnly(b) == b.branch_code
\* firstBranch.branch_code || firstBranch.code ; option value in the dropdown
BranchCode(b) == Or(b.branch_code, b.code)

(* ---------------------------------------------------------------------- *)
(* State                                                                  *)
(* ---------------------------------------------------------------------- *)
VARIABLES
  mounted,           \* the mount effect has run
  searchQuery, colleges, selectedColleges, branches, selectedBranch,
  comparisonData, loading, error,
  timers,            \* pending setTimeout(() => setError(''), 3000) callbacks
  pending,           \* per kind, the requests in flight, in issue order
  latest,            \* per kind, the fate of the request issued by the latest
                     \* operation that calls for one ("none": it issued none)
  shown,             \* per kind, the response applied last to the view: that
                     \* of the latest request, one applied before the latest
                     \* request was issued ("earlier"), or that of an older
                     \* request applied after a newer one was issued ("stale")
  returned,          \* the branch list returned for the current selection
  requests,          \* the number of requests issued so far
  unanswered,        \* per kind, the requests in flight that the server will
                     \* never answer
  chat,              \* the chat widget: its state, its sends and checks under way,
                     \* and its messages
  graphData,         \* the data prop of ComparisonGraph
  graph,             \* what ComparisonGraph rendered for it
  pageGraph,         \* what the page's own ComparisonGraph rendered for it
  statistics,        \* the Average cells of the Detailed Statistics panel
  app                \* App and FloatingChatWidget: the authentication state, the
                     \* location, isOpen, and the POST /chat requests in flight
                     \* of ChatBot instances that were unmounted

pageVars == << mounted, searchQuery, colleges, selectedColleges, branches,
               selectedBranch, comparisonData, loading, error, timers, pending,
               latest, shown, returned, requests >>
others == << unanswered, chat, graphData, graph, pageGraph, statistics, app >>
vars == << pageVars, others >>
\* everything but the chat widget
besidesChat == << pageVars, unanswered, graphData, graph, pageGraph, statistics, app >>
\* the ChatBot once mounted: the greeting, and the effect has called
\* checkBackendConnection()
MountedChatBot ==
  [isLoading |-> FALSE, backendStatus |-> "checking", inputMessage |-> "",
   messages |-> << [sender |-> "bot", text |-> "greeting"] >>,
   sends |-> << >>,
   checks |-> << [pc |-> "health", mainHealth |-> FALSE, owner |-> "mount"] >>,
   posted |-> 0, refreshed |-> FALSE]
\* a signed-in user on /compare who has opened the assistant
OpenedOnCompare ==
  [loading |-> FALSE, user |-> TRUE, path |-> "/compare", isOpen |-> TRUE,
   abandoned |-> 0]

\* CompareColleges as mounted
InitCompare ==
  /\ mounted = FALSE
  /\ searchQuery = ""
  /\ colleges = <<>>
  /\ selectedColleges = <<>>
  /\ branches = <<>>
  /\ selectedBranch = ""
  /\ comparisonData = NULL
  /\ loading = [search |-> FALSE, branches |-> FALSE, compare |-> FALSE,
                initial |-> TRUE]
  /\ error = ""
  /\ timers = 0
  /\ pending = [k \in Kinds |-> <<>>]
  /\ latest = [k \in Kinds |-> "none"]
  /\ shown = [k \in Kinds |-> "none"]
  /\ returned = <<>>
  /\ requests = 0
  /\ unanswered = [k \in Kinds |-> 0]

InitPage ==
  /\ InitCompare
  /\ chat = MountedChatBot
  /\ app = OpenedOnCompare
\* the page before it has a comparison to show
Init ==
  /\ InitPage
  /\ graphData = [present |-> FALSE, comparison |-> << >>]
  /\ pageGraph = [view |-> "none", points |-> 0, minVal |-> [nan |-> FALSE, n |-> 0],
                  maxVal |-> [nan |-> FALSE, n |-> 0], range |-> 0,
                  marks |-> << >>]
  /\ graph = [view |-> "none", uniqueYears |-> << >>, minVal |-> 0, maxVal |-> 0,
              range |-> 0, lines |-> << >>, marks |-> << >>]
  /\ statistics = [rendered |-> FALSE, average |-> << >>]

(* ---------------------------------------------------------------------- *)
(* Requests: bookkeeping shared by the three async handlers               *)
(* ---------------------------------------------------------------------- *)
InFlight == Len(pending.search) + Len(pending.branches) + Len(pending.compare)
\* fetch(...) is called: the request joins those in flight and becomes the
\* most recently issued one of its kind
Issued(k, req) ==
  /\ requests' = requests + 1
  /\ pending' = [pending EXCEPT ![k] = Append(@, req)]
  /\ latest' = [latest EXCEPT ![k] = "pending"]
  /\ shown' = [shown EXCEPT ![k] = IF @ = "latest" THEN "earlier" ELSE @]
\* the i-th request in flight of kind k is the most recently issued one
IsLatest(k, i) == latest[k] = "pending" /\ i = Len(pending[k])
\* the await of the i-th request of kind k resolves with the given outcome;
\* wrote says whether the continuation stored something in the view state
Settled(k, i, outcome, wrote) ==
  /\ requests' = requests
  /\ pending' = [pending EXCEPT ![k] = RemoveAt(@, i)]
  /\ latest' = [latest EXCEPT ![k] = IF IsLatest(k, i) THEN outcome ELSE @]
  /\ shown' = [shown EXCEPT ![k] =
                 IF wrote THEN (IF IsLatest(k, i) THEN "latest" ELSE "stale")
                 ELSE @]

(* ---------------------------------------------------------------------- *)
(* Response bodies the backend may send                                   *)
(* ---------------------------------------------------------------------- *)
\* the success field of a /compare body: missing, false or true
SuccessFields == { ABSENT, "false", "true" }
ErrorFields == { ABSENT, "", "no data" }
MessageFields == { ABSENT, "Not found" }
Statuses == { 500 }
\* the ComparisonResult the backend computes for a compare request
ResultFor(req) ==
  [college_codes |-> req.college_codes, branch_code |-> req.branch_code]

(* ---------------------------------------------------------------------- *)
(* Handlers                                                               *)
(* ---------------------------------------------------------------------- *)
\* useEffect(() => { loadInitialColleges(); }, [])
loadInitialColleges ==
  /\ ~mounted
  /\ mounted' = TRUE
  /\ loading' = [loading EXCEPT !.search = TRUE, !.initial = TRUE]
  /\ error' = ""
  /\ Issued("search", [query |-> "", initial |-> TRUE])
  /\ UNCHANGED << searchQuery, colleges, selectedColleges, branches,
                  selectedBranch, comparisonData, timers, returned >>
  /\ UNCHANGED others

handleSearch(query) ==
  /\ mounted
  /\ searchQuery' = query
  /\ IF StrLen(query) < 2 /\ StrLen(query) > 0
     THEN UNCHANGED << loading, error, pending, latest, shown, requests >>
     ELSE /\ loading' = [loading EXCEPT !.search = TRUE]
          /\ error' = ""
          /\ Issued("search", [query |-> query, initial |-> FALSE])
  /\ UNCHANGED << mounted, colleges, selectedColleges, branches,
                  selectedBranch, comparisonData, timers, returned >>
  /\ UNCHANGED others

\* the continuation of loadInitialColleges / handleSearch after the await
\* list: data.colleges || data || []
searchSettled(i, ok, list) ==
  /\ i \in 1..Len(pending.search)
  /\ LET req == pending.search[i] IN
     /\ IF ok
        THEN /\ colleges' = list
             /\ error' = error
        ELSE /\ colleges' = colleges
             /\ error' = IF req.initial
                         THEN "Failed to load colleges. Please check if the backend is running."
                         ELSE "Failed to search colleges"
     /\ loading' = IF req.initial
                   THEN [loading EXCEPT !.search = FALSE, !.initial = FALSE]
                   ELSE [loading EXCEPT !.search = FALSE]
     /\ Settled("search", i, IF ok THEN "ok" ELSE "failed", ok)
  /\ UNCHANGED << mounted, searchQuery, selectedColleges, branches,
                  selectedBranch, comparisonData, timers, returned >>
  /\ UNCHANGED others

\* loadBranches(codes) up to its await
loadBranches(codes) ==
  /\ loading' = [loading EXCEPT !.branches = TRUE]
  /\ Issued("branches", [college_codes |-> codes])
  /\ returned' = <<>>

\* a plausible slip: the identifier is looked up in the other field
AlreadySelectedByCode(college) ==
  \E i \in 1..Len(selectedColleges) :
    selectedColleges[i].code = college.college_code
\* selectedColleges.find(c => c.college_code === college.college_code)
AlreadySelected(college) ==
  \E i \in 1..Len(selectedColleges) :
    selectedColleges[i].college_code = college.college_code

\* a plausible slip: > instead of >=
OverCapacity == Len(selectedColleges) > 3
\* selectedColleges.length >= 3
AtCapacity == Len(selectedColleges) >= 3

\* a plausible slip: > instead of >=
NeedsBranchesAboveTwo(newSelection) == Len(newSelection) > 2
\* newSelection.length >= 2
NeedsBranches(newSelection) == Len(newSelection) >= 2

selectCollege(college) ==
  /\ mounted
  /\ IF AlreadySelected(college)
     THEN /\ error' = "This college is already selected"
          /\ timers' = timers + 1
          /\ UNCHANGED << searchQuery, selectedColleges, branches,
                          selectedBranch, comparisonData, loading, pending,
                          latest, shown, returned, requests >>
     ELSE IF AtCapacity
     THEN /\ error' = "Maximum 3 colleges can be selected"
          /\ timers' = timers + 1
          /\ UNCHANGED << searchQuery, selectedColleges, branches,
                          selectedBranch, comparisonData, loading, pending,
                          latest, shown, returned, requests >>
     ELSE LET newSelection == Append(selectedColleges, college) IN
          /\ selectedColleges' = newSelection
          /\ searchQuery' = ""
          /\ error' = ""
          /\ comparisonData' = NULL
          /\ IF NeedsBranches(newSelection)
             THEN loadBranches(CodesOf(newSelection))
             ELSE UNCHANGED << loading, pending, latest, shown, returned, requests >>
          /\ UNCHANGED << branches, selectedBranch, timers >>
  /\ UNCHANGED << mounted, colleges >>
  /\ UNCHANGED others

\* a plausible slip: the branches are kept until nothing is selected
NoneLeft(newSelection) == Len(newSelection) < 1
\* newSelection.length < 2
TooFewLeft(newSelection) == Len(newSelection) < 2

removeCollege(code) ==
  /\ mounted
  /\ LET newSelection ==
           SelectSeq(selectedColleges, LAMBDA c : c.college_code # code) IN
     /\ selectedColleges' = newSelection
     /\ comparisonData' = NULL
     /\ error' = ""
     /\ IF TooFewLeft(newSelection)
        THEN /\ branches' = <<>>
             /\ selectedBranch' = ""
             /\ latest' = [latest EXCEPT !.branches = "none"]
             /\ returned' = <<>>
             /\ UNCHANGED << loading, pending, shown, requests >>
        ELSE /\ loadBranches(CodesOf(newSelection))
             /\ UNCHANGED << branches, selectedBranch >>
  /\ UNCHANGED << mounted, searchQuery, colleges, timers >>
  /\ UNCHANGED others

\* a plausible slip: the catch block empties the list
BranchesStoredOrCleared(ok, list) == IF ok THEN list ELSE <<>>
\* setBranches(...) in the try block, nothing in the catch block
BranchesStored(ok, list) == IF ok THEN list ELSE branches

\* the continuation of loadBranches after the await
\* list: data.branches || data || []
loadBranchesSettled(i, ok, list) ==
  /\ i \in 1..Len(pending.branches)
  /\ branches' = BranchesStored(ok, list)
  /\ IF ok
     THEN /\ selectedBranch' = IF Len(list) > 0
                               THEN BranchCode(list[1])
                               ELSE selectedBranch
          /\ error' = error
     ELSE /\ error' = "Failed to load branches"
          /\ UNCHANGED selectedBranch
  /\ loading' = [loading EXCEPT !.branches = FALSE]
  /\ Settled("branches", i, IF ok THEN "ok" ELSE "failed", ok)
  /\ returned' = IF ok /\ IsLatest("branches", i)
                 THEN list ELSE returned
  /\ UNCHANGED << mounted, searchQuery, colleges, selectedColleges,
                  comparisonData, timers >>
  /\ UNCHANGED others

\* <select value={selectedBranch} onChange={e => setSelectedBranch(e.target.value)}>
BranchOptions == { "" } \cup { BranchCode(branches[i]) : i \in 1..Len(branches) }
chooseBranch(value) ==
  /\ mounted
  /\ value \in BranchOptions
  /\ value # selectedBranch
  /\ selectedBranch' = value
  /\ UNCHANGED << mounted, searchQuery, colleges, selectedColleges, branches,
                  comparisonData, loading, error, timers, pending, latest,
                  shown, returned, requests >>
  /\ UNCHANGED others

\* a plausible slip: the branch is not checked
BranchNotChecked == TRUE
\* the negation of !selectedBranch
BranchChosen == Truthy(selectedBranch)

\* a plausible slip: the identifiers are read from the other field
ComparePayloadByCode ==
  [college_codes |-> [ i \in 1..Len(selectedColleges) |-> selectedColleges[i].code ],
   branch_code |-> selectedBranch]
\* body: { college_codes: selectedColleges.map(c => c.college_code),
\*         branch_code: selectedBranch }
ComparePayload ==
  [college_codes |-> CodesOf(selectedColleges), branch_code |-> selectedBranch]

handleCompare ==
  /\ mounted
  /\ IF Len(selectedColleges) < 2
     THEN /\ error' = "Please select at least 2 colleges"
          /\ UNCHANGED << loading, pending, latest, shown, requests >>
     ELSE IF ~BranchChosen
     THEN /\ error' = "Please select a branch"
          /\ UNCHANGED << loading, pending, latest, shown, requests >>
     ELSE /\ loading' = [loading EXCEPT !.compare = TRUE]
          /\ error' = ""
          /\ Issued("compare", ComparePayload)
  /\ UNCHANGED << mounted, searchQuery, colleges, selectedColleges, branches,
                  selectedBranch, comparisonData, timers, returned >>
  /\ UNCHANGED others

\* errorData.message || errorData.error || `HTTP ${res.status}: Comparison failed`
HttpErrorText(status, errorData) ==
  Or(errorData.message,
     Or(errorData.error, "HTTP " \o ToString(status) \o ": Comparison failed"))

\* what the continuation of handleCompare stores for a response
\*   kind "network": fetch rejected;  "http": !res.ok;  "body": a 2xx body
CompareText(resp) ==
  CASE resp.kind = "network" -> Or("Failed to fetch", "Failed to compare colleges")
    [] resp.kind = "http" ->
         Or(HttpErrorText(resp.status, resp.body), "Failed to compare colleges")
    [] OTHER ->
         IF resp.body.success = "true" /\ resp.body.data # NULL THEN error
         ELSE IF Truthy(resp.body.error) THEN resp.body.error
         ELSE "Failed to compare colleges - invalid response format"
\* a plausible slip: the catch and else branches leave comparisonData alone
CompareStoredOrKept(resp) ==
  IF resp.kind = "body" /\ resp.body.success = "true" /\ resp.body.data # NULL
  THEN resp.body.data
  ELSE comparisonData
CompareStored(resp) ==
  IF resp.kind = "body" /\ resp.body.success = "true" /\ resp.body.data # NULL
  THEN resp.body.data
  ELSE NULL

CompareResponses(req) ==
  { [kind |-> "network"] }
  \cup { [kind |-> "http", status |-> st, body |-> [message |-> m, error |-> e]] :
           st \in Statuses, m \in MessageFields, e \in ErrorFields }
  \cup { [kind |-> "body", body |-> [success |-> su, data |-> d, error |-> e]] :
           su \in SuccessFields, d \in { NULL, ResultFor(req) },
           e \in ErrorFields }

\* the continuation of handleCompare after the await
handleCompareSettled(i, resp) ==
  /\ i \in 1..Len(pending.compare)
  /\ comparisonData' = CompareStored(resp)
  /\ error' = CompareText(resp)
  /\ loading' = [loading EXCEPT !.compare = FALSE]
  /\ Settled("compare", i, IF CompareStored(resp) # NULL THEN "ok" ELSE "failed", TRUE)
  /\ UNCHANGED << mounted, searchQuery, colleges, selectedColleges, branches,
                  selectedBranch, timers, returned >>
  /\ UNCHANGED others

\* the X button of the error alert: onClick={() => setError('')}
dismissError ==
  /\ mounted
  /\ Truthy(error)
  /\ error' = ""
  /\ UNCHANGED << mounted, searchQuery, colleges, selectedColleges, branches,
                  selectedBranch, comparisonData, loading, timers, pending,
                  latest, shown, returned, requests >>
  /\ UNCHANGED others

\* a setTimeout(() => setError(''), 3000) callback fires
errorTimeout ==
  /\ timers > 0
  /\ timers' = timers - 1
  /\ error' = ""
  /\ UNCHANGED << mounted, searchQuery, colleges, selectedColleges, branches,
                  selectedBranch, comparisonData, loading, pending, latest,
                  shown, returned, requests >>
  /\ UNCHANGED others

searchResponse ==
  \E i \in 1..Len(pending.search), ok \in BOOLEAN, list \in CollegeLists :
    searchSettled(i, ok, list)
branchesResponse ==
  \E i \in 1..Len(pending.branches), ok \in BOOLEAN, list \in BranchLists :
    loadBranchesSettled(i, ok, list)
\* the bodies of a 2xx /branches response: the list itself, or an object with
\* the list in its branches field
MoreBranchLists == BranchLists \cup { << BranchCS >> }
BranchBodies ==
  { [shape |-> "array", list |-> l] : l \in MoreBranchLists }
  \cup { [shape |-> "object", branches |-> l] : l \in MoreBranchLists }
\* data.branches || data || []  (an array is truthy, also when it is empty)
BranchesOf(data) ==
  IF data.shape = "object" THEN data.branches ELSE data.list
\* every answer to a branch request: fetch rejects, !res.ok, a 2xx body
BranchResponses ==
  { [kind |-> "network"], [kind |-> "http"] }
  \cup { [kind |-> "body", data |-> d] : d \in BranchBodies }
anyBranchesResponse ==
  \E i \in 1..Len(pending.branches), resp \in BranchResponses :
    IF resp.kind = "body"
    THEN loadBranchesSettled(i, TRUE, BranchesOf(resp.data))
    ELSE loadBranchesSettled(i, FALSE, <<>>)
\* the three typical answers to a compare request: the connection fails, the
\* backend reports an error of its own, the backend sends the result
TypicalResponses(req) ==
  { [kind |-> "network"],
    [kind |-> "body", body |-> [success |-> "false", data |-> NULL, error |-> "no data"]],
    [kind |-> "body", body |-> [success |-> "true", data |-> ResultFor(req), error |-> ABSENT]] }
compareResponse ==
  \E i \in 1..Len(pending.compare) :
    \E resp \in TypicalResponses(pending.compare[i]) :
      handleCompareSettled(i, resp)
\* every answer to a compare request
anyCompareResponse ==
  \E i \in 1..Len(pending.compare) :
    \E resp \in CompareResponses(pending.compare[i]) :
      handleCompareSettled(i, resp)

\* the server never answers the i-th request of kind k: fetch is called
\* without a signal or a timeout, so its promise stays pending
neverAnswered(k, i) ==
  /\ i \in 1..Len(pending[k])
  /\ pending' = [pending EXCEPT ![k] = RemoveAt(@, i)]
  /\ unanswered' = [unanswered EXCEPT ![k] = @ + 1]
  /\ UNCHANGED << mounted, searchQuery, colleges, selectedColleges, branches,
                  selectedBranch, comparisonData, loading, error, timers,
                  latest, shown, returned, requests, chat, graphData, graph, pageGraph, statistics,
                  app >>
noResponse ==
  \E k \in Kinds : \E i \in 1..Len(pending[k]) : neverAnswered(k, i)
\* requests of kind k that have not reached the continuation of their handler
Outstanding(k) == Len(pending[k]) + unanswered[k]

(* ---------------------------------------------------------------------- *)
(* The chat widget (ChatBot)                                              *)
(* ---------------------------------------------------------------------- *)
\* accepted sends of one conversation
MaxSends == 2
\* what the user may have in the textarea
ChatInputs == { "", " ", "hi" }
\* inputMessage.trim()
Trim(text) == IF text = " " THEN "" ELSE text
\* the first line of checkBackendConnection: a run waits for GET /health
NewCheck(owner) == [pc |-> "health", mainHealth |-> FALSE, owner |-> owner]
\* the texts of the catch block of handleSend
Apology == "I apologize, but I'm having trouble processing your request. "
TimedOut == "The request timed out. Please try again."
NotFound == "Chat service endpoint not found. Please check backend configuration."
ServerError == "Server error. This might be due to Gemini API configuration issues."
Unavailable ==
  "Chat service is temporarily unavailable. Please check if Gemini API key is set."
CannotConnect == "Cannot connect to the server. Please ensure the backend is running."
Tips ==
  "\n\n**Troubleshooting Tips:**\n1. Check if backend server is running on port 5000\n2. Run 'python app.py' in backend folder\n3. Check console for backend errors"
\* the outcomes of POST /chat: success true, success false, an error status,
\* no response, and the timeout of the client
ChatStatuses == { 400, 500 }
ChatAnswers ==
  { [kind |-> "reply", status |-> 200], [kind |-> "refused", status |-> 200],
    [kind |-> "unreachable", status |-> 0] }
  \cup { [kind |-> "status", status |-> n] : n \in ChatStatuses }
Aborted == [kind |-> "timeout", status |-> 0]
\* errorMessage for the error caught; the status of the other statuses is
\* appended to the apology
StatusText(status) ==
  CASE status = 404 -> NotFound
    [] status = 500 -> ServerError
    [] status = 503 -> Unavailable
    [] OTHER -> Apology \o "Server returned status: " \o ToString(status)
CatchText(answer) ==
  CASE answer.kind = "timeout" -> Apology \o TimedOut
    [] answer.kind = "status" -> StatusText(answer.status)
    [] answer.kind = "unreachable" -> CannotConnect \o Tips
    [] OTHER -> Apology
UserMessage(text) == [sender |-> "user", text |-> text]
BotMessage(text) == [sender |-> "bot", text |-> text]

\* the textarea: disabled={isLoading || backendStatus !== "connected"}
TextareaEnabled == ~chat.isLoading /\ chat.backendStatus = "connected"
\* the Send button:
\* disabled={isLoading || !inputMessage.trim() || backendStatus !== "connected"}
SendButtonEnabled == TextareaEnabled /\ Trim(chat.inputMessage) # ""
\* onChange={(e) => setInputMessage(e.target.value)}
typeMessage(text) ==
  /\ text # chat.inputMessage
  /\ chat' = [chat EXCEPT !.inputMessage = text]
  /\ UNCHANGED besidesChat
\* if (!inputMessage.trim() || isLoading) return;
SendRefused(inputMessage, isLoading) == Trim(inputMessage) = "" \/ isLoading
\* handleSend up to the await of api.post("/chat", ...)
handleSend ==
  /\ IF SendRefused(chat.inputMessage, chat.isLoading)
     THEN UNCHANGED chat
     ELSE chat' = [chat EXCEPT
                     !.inputMessage = "",
                     !.messages = Append(@, UserMessage(Trim(chat.inputMessage))),
                     !.isLoading = TRUE,
                     !.sends = Append(@, [pc |-> "posting"]),
                     !.posted = @ + 1]
  /\ UNCHANGED besidesChat
\* what the catch block appends and starts
CaughtWithoutRecheck(i, answer) ==
  [chat EXCEPT !.messages = Append(@, BotMessage(CatchText(answer))),
               !.isLoading = FALSE,
               !.sends = RemoveAt(@, i)]
\* catch: the error text is appended and checkBackendConnection() is awaited
Caught(i, answer) ==
  [chat EXCEPT !.messages = Append(@, BotMessage(CatchText(answer))),
               !.sends[i].pc = "rechecking",
               !.checks = Append(@, NewCheck("send"))]
\* the continuation of the i-th handleSend: the reply is appended and finally
\* resets isLoading, or the catch block runs (success false throws)
chatSettled(i, answer) ==
  /\ i \in 1..Len(chat.sends)
  /\ chat.sends[i].pc = "posting"
  /\ chat' = IF answer.kind = "reply"
             THEN [chat EXCEPT !.messages = Append(@, BotMessage("reply")),
                               !.isLoading = FALSE,
                               !.sends = RemoveAt(@, i)]
             ELSE Caught(i, answer)
  /\ UNCHANGED besidesChat
chatResponse ==
  \E i \in 1..Len(chat.sends), answer \in ChatAnswers : chatSettled(i, answer)
\* axios.create({ timeout: 30000 }): the request is aborted (ECONNABORTED)
chatTimeout == \E i \in 1..Len(chat.sends) : chatSettled(i, Aborted)

\* the Refresh button: onClick={checkBackendConnection},
\* disabled={backendStatus === "checking"}
refreshConnection ==
  /\ chat.backendStatus # "checking"
  /\ chat' = [chat EXCEPT !.checks = Append(@, NewCheck("refresh")),
                          !.refreshed = TRUE]
  /\ UNCHANGED besidesChat
\* the return of a run with no finally block after it
CompletedWithoutFinally(r, status) ==
  LET rechecking == { i \in 1..Len(chat.sends) : chat.sends[i].pc = "rechecking" }
      i == CHOOSE j \in rechecking : \A k \in rechecking : j <= k
  IN  IF chat.checks[r].owner = "send" /\ rechecking # {}
      THEN [chat EXCEPT !.backendStatus = status,
                        !.checks = RemoveAt(@, r),
                        !.sends = RemoveAt(@, i)]
      ELSE [chat EXCEPT !.backendStatus = status, !.checks = RemoveAt(@, r)]
\* the r-th run of checkBackendConnection returns with the status it set last.
\* A run awaited by handleSend is followed by finally { setIsLoading(false) }
Completed(r, status) ==
  LET rechecking == { i \in 1..Len(chat.sends) : chat.sends[i].pc = "rechecking" }
      i == CHOOSE j \in rechecking : \A k \in rechecking : j <= k
  IN  IF chat.checks[r].owner = "send" /\ rechecking # {}
      THEN [chat EXCEPT !.backendStatus = status,
                        !.checks = RemoveAt(@, r),
                        !.sends = RemoveAt(@, i),
                        !.isLoading = FALSE]
      ELSE [chat EXCEPT !.backendStatus = status, !.checks = RemoveAt(@, r)]
\* GET /health is answered (mainHealth is set) or fails (it stays null)
healthSettled(r, ok) ==
  /\ r \in 1..Len(chat.checks)
  /\ chat.checks[r].pc = "health"
  /\ chat' = [chat EXCEPT !.checks[r].pc = "status", !.checks[r].mainHealth = ok]
  /\ UNCHANGED besidesChat
StatusResults == { "available", "unavailable", "failed" }
\* the status without the last test of the function
StatusAfterWithoutDisconnected(result, mainHealth) ==
  IF result = "available" THEN "connected" ELSE "gemini_unavailable"
\* the status once GET /chat/status is over and the tests that follow are made
StatusAfter(result, mainHealth) ==
  CASE result = "available" -> "connected"
    [] result = "unavailable" -> "gemini_unavailable"
    [] result = "failed" /\ mainHealth -> "gemini_unavailable"
    [] OTHER -> "disconnected"
\* GET /chat/status is answered or fails; with mainHealth and no chatStatus the
\* run goes on to GET /
statusSettled(r, result) ==
  /\ r \in 1..Len(chat.checks)
  /\ chat.checks[r].pc = "status"
  /\ chat' = IF result = "failed" /\ chat.checks[r].mainHealth
             THEN [chat EXCEPT !.backendStatus = StatusAfter(result, TRUE),
                               !.checks[r].pc = "home"]
             ELSE Completed(r, StatusAfter(result, chat.checks[r].mainHealth))
  /\ UNCHANGED besidesChat
HomeResults == { "chat", "nochat", "failed" }
HomeStatus(result) ==
  CASE result = "chat" -> "chat_endpoint_exists"
    [] result = "nochat" -> "chat_endpoint_missing"
    [] OTHER -> "unknown"
\* GET / is answered, with or without endpoints.chat, or fails
homeSettled(r, result) ==
  /\ r \in 1..Len(chat.checks)
  /\ chat.checks[r].pc = "home"
  /\ chat' = Completed(r, HomeStatus(result))
  /\ UNCHANGED besidesChat
healthResponse ==
  \E r \in 1..Len(chat.checks), ok \in BOOLEAN : healthSettled(r, ok)
statusResponse ==
  \E r \in 1..Len(chat.checks), result \in StatusResults : statusSettled(r, result)
homeResponse ==
  \E r \in 1..Len(chat.checks), result \in HomeResults : homeSettled(r, result)
\* the text of the status bar (getStatusDisplay)
StatusDisplay(backendStatus) ==
  CASE backendStatus = "connected" -> "Connected to AI Assistant"
    [] backendStatus = "disconnected" -> "Backend Disconnected"
    [] backendStatus = "gemini_unavailable" -> "AI Service Unavailable"
    [] backendStatus = "direct_available" -> "Backend Available (Proxy Issue)"
    [] backendStatus = "checking" -> "Checking Connection..."
    [] OTHER -> "Unknown Status"
(* ---------------------------------------------------------------------- *)
(* App: the routes, the authentication state and the floating chat widget *)
(* ---------------------------------------------------------------------- *)
\* the paths of the routes and one that no route names
Paths ==
  { "/", "/login", "/signup", "/onboarding", "/dashboard", "/profile",
    "/predictor", "/builder", "/compare", "/about" }
Page(name) == [kind |-> "page", name |-> name]
Navigate(to) == [kind |-> "navigate", name |-> to]
\* the routes with /compare left without its test of user
ElementCompareOpen(user, path) ==
  CASE path = "/" -> Page("LandingPage")
    [] path = "/login" -> IF ~user THEN Page("Login") ELSE Navigate("/dashboard")
    [] path = "/signup" -> IF ~user THEN Page("Signup") ELSE Navigate("/dashboard")
    [] path = "/onboarding" ->
         IF user THEN Page("ProfileOnboarding") ELSE Navigate("/login")
    [] path = "/dashboard" -> IF user THEN Page("Dashboard") ELSE Navigate("/login")
    [] path = "/profile" -> IF user THEN Page("Profile") ELSE Navigate("/login")
    [] path = "/predictor" -> IF user THEN Page("Predictor") ELSE Navigate("/login")
    [] path = "/builder" ->
         IF user THEN Page("OptionFormBuilder") ELSE Navigate("/login")
    [] path = "/compare" -> Page("CompareColleges")
    [] OTHER -> Navigate("/")
\* the element of the route that matches the path
Element(user, path) ==
  CASE path = "/" -> Page("LandingPage")
    [] path = "/login" -> IF ~user THEN Page("Login") ELSE Navigate("/dashboard")
    [] path = "/signup" -> IF ~user THEN Page("Signup") ELSE Navigate("/dashboard")
    [] path = "/onboarding" ->
         IF user THEN Page("ProfileOnboarding") ELSE Navigate("/login")
    [] path = "/dashboard" -> IF user THEN Page("Dashboard") ELSE Navigate("/login")
    [] path = "/profile" -> IF user THEN Page("Profile") ELSE Navigate("/login")
    [] path = "/predictor" -> IF user THEN Page("Predictor") ELSE Navigate("/login")
    [] path = "/builder" ->
         IF user THEN Page("OptionFormBuilder") ELSE Navigate("/login")
    [] path = "/compare" ->
         IF user THEN Page("CompareColleges") ELSE Navigate("/login")
    [] OTHER -> Navigate("/")
hideOnRoutes == { "/", "/login", "/signup" }
\* what FloatingChatWidget renders: nothing, the toggle button, or the modal
\* that holds <ChatBot />
FloatingChatWidget(user, path, isOpen) ==
  IF path \in hideOnRoutes \/ ~user THEN "null"
  ELSE IF isOpen THEN "modal" ELSE "button"
\* what App renders: the spinner while loading, else the route and the widget
Rendered(a) ==
  IF a.loading
  THEN [route |-> Page("Loading"), widget |-> "null"]
  ELSE [route |-> Element(a.user, a.path),
        widget |-> FloatingChatWidget(a.user, a.path, a.isOpen)]
ChatBotMounted(a) == Rendered(a).widget = "modal"
\* no ChatBot is mounted
NoChatBot ==
  [isLoading |-> FALSE, backendStatus |-> "checking", inputMessage |-> "",
   messages |-> << >>, sends |-> << >>, checks |-> << >>,
   posted |-> 0, refreshed |-> FALSE]
\* the sends of the mounted ChatBot that wait for the answer to POST /chat
Posting == { i \in 1..Len(chat.sends) : chat.sends[i].pc = "posting" }
\* App renders with the state next: a ChatBot that appears is a new instance
\* with its initial state, and one that disappears is unmounted with nothing
\* cancelled, so its POST /chat requests stay in flight
Commit(next) ==
  /\ app' = IF ChatBotMounted(app) /\ ~ChatBotMounted(next)
            THEN [next EXCEPT !.abandoned = @ + Cardinality(Posting)]
            ELSE next
  /\ chat' = CASE ChatBotMounted(app) = ChatBotMounted(next) -> chat
               [] ChatBotMounted(next) ->
                    [MountedChatBot EXCEPT !.posted = chat.posted,
                                           !.refreshed = chat.refreshed]
               [] OTHER ->
                    [NoChatBot EXCEPT !.posted = chat.posted,
                                      !.refreshed = chat.refreshed]
  /\ UNCHANGED << pageVars, unanswered, graphData, graph, pageGraph, statistics >>
\* the route is a page: no <Navigate> is about to change the location
OnPage == ~app.loading /\ Rendered(app).route.kind = "page"
\* useAuthState: the first authentication state arrives
authLoaded(user) ==
  /\ app.loading
  /\ Commit([app EXCEPT !.loading = FALSE, !.user = user])
\* the user signs in or out
authChanged ==
  /\ OnPage
  /\ Commit([app EXCEPT !.user = ~@])
\* a link or the address bar takes the user to a path
navigate(path) ==
  /\ OnPage
  /\ path # app.path
  /\ Commit([app EXCEPT !.path = path])
\* <Navigate to=... replace />
redirect ==
  /\ ~app.loading
  /\ Rendered(app).route.kind = "navigate"
  /\ Commit([app EXCEPT !.path = Rendered(app).route.name])
\* onClick={() => setIsOpen(true)}
openWidget ==
  /\ OnPage
  /\ Rendered(app).widget = "button"
  /\ Commit([app EXCEPT !.isOpen = TRUE])
\* onClick={() => setIsOpen(false)}
closeWidget ==
  /\ OnPage
  /\ Rendered(app).widget = "modal"
  /\ Commit([app EXCEPT !.isOpen = FALSE])
\* POST /chat of an unmounted ChatBot is answered or times out: the state that
\* its continuation sets is that of a component no longer there
abandonedSettled ==
  /\ app.abandoned > 0
  /\ app' = [app EXCEPT !.abandoned = @ - 1]
  /\ UNCHANGED << pageVars, unanswered, chat, graphData, graph, pageGraph,
                  statistics >>

\* the bounds of a conversation
ChatWithin == chat'.posted <= MaxSends

(* ---------------------------------------------------------------------- *)
(* The chart (ComparisonGraph.jsx): values as JavaScript sees them        *)
(* ---------------------------------------------------------------------- *)
\* the longest trend series of the inputs
MaxPoints == 2

Undefined == [t |-> "undefined", s |-> "", n |-> 0]
Null == [t |-> "null", s |-> "", n |-> 0]
Num(n) == [t |-> "number", s |-> "", n |-> n]
Str(s) == [t |-> "string", s |-> s, n |-> 0]
\* Number(v) for the strings of the inputs: "" and "2022" convert, "n/a" does not
NumericStrings == { "", "2022" }
StringToNumber(s) == IF s = "2022" THEN 2022 ELSE 0
\* isNaN(v): v is converted with Number() first
isNaN(v) ==
  \/ v.t = "undefined"
  \/ v.t = "string" /\ v.s \notin NumericStrings
\* Number(v), for a v that is not NaN
Number(v) ==
  CASE v.t = "number" -> v.n
    [] v.t = "string" -> StringToNumber(v.s)
    [] OTHER -> 0
\* v !== undefined && v !== null && !isNaN(v)
Valid(v) == v.t # "undefined" /\ v.t # "null" /\ ~isNaN(v)

\* trend points { year, value } a backend may send
TrendPoint(y, v) == [year |-> y, value |-> v]
TrendPoints ==
  { TrendPoint(Num(2021), Num(50)), TrendPoint(Num(2022), Num(70)),
    TrendPoint(Num(2023), Num(50)), TrendPoint(Num(2022), Null),
    TrendPoint(Undefined, Num(70)), TrendPoint(Num(2021), Str("")),
    TrendPoint(Str("2022"), Str("n/a")), TrendPoint(Num(2023), Undefined) }
\* the points among them whose year and value are numbers
NumberPoints == { t \in TrendPoints : t.year.t = "number" /\ t.value.t = "number" }
RECURSIVE SeqsUpTo(_, _)
SeqsUpTo(S, n) ==
  IF n = 0 THEN { << >> }
  ELSE LET shorter == SeqsUpTo(S, n - 1) IN
       shorter \cup { Append(q, x) : q \in shorter, x \in S }
\* a college of data.comparison: its trend is an array of the given points,
\* or is missing
GraphColleges(points) ==
  { [hasTrend |-> TRUE, trend |-> q] : q \in SeqsUpTo(points, MaxPoints) }
  \cup { [hasTrend |-> FALSE, trend |-> << >>] }
\* the data prop: null, or an object with a comparison array of up to two
\* colleges, the first with any points and the second with number points
GraphInputs ==
  { [present |-> FALSE, comparison |-> << >>] }
  \cup { [present |-> TRUE, comparison |-> << >>] }
  \cup { [present |-> TRUE, comparison |-> << a >>] : a \in GraphColleges(TrendPoints) }
  \cup { [present |-> TRUE, comparison |-> << a, b >>] :
            a \in GraphColleges(TrendPoints), b \in GraphColleges(NumberPoints) }

\* college.trend && Array.isArray(college.trend) ? college.trend : nothing
TrendOf(college) == IF college.hasTrend THEN college.trend ELSE << >>
\* all the points of all the colleges
PointsOf(comparison) ==
  UNION { { TrendOf(comparison[c])[i] : i \in 1..Len(TrendOf(comparison[c])) } :
          c \in 1..Len(comparison) }
\* the members of new Set(allYears)
AllYears(comparison) ==
  { Number(t.year) : t \in { u \in PointsOf(comparison) : Valid(u.year) } }
RECURSIVE SortDescending(_)
RECURSIVE SortAscending(_)
\* the largest first
SortDescending(S) ==
  IF S = {} THEN << >>
  ELSE LET m == CHOOSE x \in S : \A y \in S : x >= y IN
       << m >> \o SortDescending(S \ { m })
\* [...set].sort((a, b) => a - b)
SortAscending(S) ==
  IF S = {} THEN << >>
  ELSE LET m == CHOOSE x \in S : \A y \in S : x <= y IN
       << m >> \o SortAscending(S \ { m })
\* the values pushed to allValues
AllValues(comparison) ==
  { Number(t.value) : t \in { u \in PointsOf(comparison) : Valid(u.value) } }
Min(S) == CHOOSE x \in S : \A y \in S : x <= y
Max(S) == CHOOSE x \in S : \A y \in S : x >= y
\* a plausible slip: the difference itself
RangeUnguarded(minVal, maxVal) == maxVal - minVal
\* Math.max(maxVal - minVal, 1)
Range(minVal, maxVal) == IF maxVal - minVal > 1 THEN maxVal - minVal ELSE 1

\* .sort((a, b) => a.year - b.year): a stable sort
RECURSIVE SortByYear(_)
SortByYear(q) ==
  IF q = << >> THEN << >>
  ELSE LET rest == SortByYear(SubSeq(q, 1, Len(q) - 1))
           x == q[Len(q)]
           k == Cardinality({ i \in 1..Len(rest) : rest[i].year <= x.year })
       IN  SubSeq(rest, 1, k) \o << x >> \o SubSeq(rest, k + 1, Len(rest))
\* the filter of validPoints: year and value are both valid
IsValidPoint(t) == Valid(t.year) /\ Valid(t.value)
\* trend.filter(...).map(...).sort(...)
ValidPoints(trend) ==
  LET kept == SelectSeq(trend, IsValidPoint) IN
  SortByYear([ i \in 1..Len(kept) |->
                 [year |-> Number(kept[i].year), value |-> Number(kept[i].value)] ])
\* the points of the path and of the circles of a college: none when the
\* college has fewer than 2 valid points (the component returns null)
Plotted(college) ==
  LET validPoints == ValidPoints(TrendOf(college)) IN
  IF Len(validPoints) < 2 THEN << >> ELSE validPoints

\* the sizes of the svg
graphHeight == 320
graphWidth == 700
paddingLeft == 60
paddingRight == 30
paddingTop == 20
paddingBottom == 60
chartWidth == graphWidth - paddingLeft - paddingRight
chartHeight == graphHeight - paddingTop - paddingBottom
\* a coordinate, kept as the fraction num / den (den > 0)
Fraction(num, den) == [num |-> num, den |-> den]
\* uniqueYears.indexOf(year): from 0, and -1 when absent
IndexOf(q, year) ==
  IF \E i \in 1..Len(q) : q[i] = year
  THEN Min({ i \in 1..Len(q) : q[i] = year }) - 1
  ELSE -1
\* the position in the college's own series, whatever the year
XByOwnIndex(point, i, validPoints, uniqueYears) ==
  LET d == IF Len(validPoints) - 1 > 1 THEN Len(validPoints) - 1 ELSE 1 IN
  Fraction(paddingLeft * d + i * chartWidth, d)
\* yearIndex >= 0 ? padding.left + (yearIndex / Math.max(uniqueYears.length - 1, 1)) * chartWidth
\*                : padding.left + (i / Math.max(validPoints.length - 1, 1)) * chartWidth
XOf(point, i, validPoints, uniqueYears) ==
  LET yearIndex == IndexOf(uniqueYears, point.year)
      d == IF Len(uniqueYears) - 1 > 1 THEN Len(uniqueYears) - 1 ELSE 1
      e == IF Len(validPoints) - 1 > 1 THEN Len(validPoints) - 1 ELSE 1
  IN  IF yearIndex >= 0
      THEN Fraction(paddingLeft * d + yearIndex * chartWidth, d)
      ELSE Fraction(paddingLeft * e + i * chartWidth, e)
\* padding.top + chartHeight - ((point.value - minVal) / range) * chartHeight
YOf(point, minVal, range) ==
  Fraction((paddingTop + chartHeight) * range - (point.value - minVal) * chartHeight,
           range)
\* the { x, y } of the points of a college, in the order of its line; i counts
\* from 0. isValid is true of each: the divisors are at least 1
Marks(plotted, uniqueYears, minVal, range) ==
  [ i \in 1..Len(plotted) |->
      [x |-> XOf(plotted[i], i - 1, plotted, uniqueYears),
       y |-> YOf(plotted[i], minVal, range)] ]

\* nothing rendered yet
NotRendered ==
  [view |-> "none", uniqueYears |-> << >>, minVal |-> 0, maxVal |-> 0,
   range |-> 0, lines |-> << >>, marks |-> << >>]
Message(text) == [NotRendered EXCEPT !.view = text]
\* what ComparisonGraph({ data }) returns
ComparisonGraph(data) ==
  IF ~data.present \/ Len(data.comparison) = 0
  THEN Message("No comparison data available")
  ELSE LET comparison == data.comparison
           uniqueYears == SortAscending(AllYears(comparison))
           allValues == AllValues(comparison)
       IN  IF Len(uniqueYears) = 0
           THEN Message("No valid trend data available. Check if CSV has year data.")
           ELSE IF allValues = {}
           THEN Message("No valid percentile values found in data")
           ELSE [view |-> "chart",
                 uniqueYears |-> uniqueYears,
                 minVal |-> Min(allValues),
                 maxVal |-> Max(allValues),
                 range |-> Range(Min(allValues), Max(allValues)),
                 lines |-> [ c \in 1..Len(comparison) |-> Plotted(comparison[c]) ],
                 marks |-> [ c \in 1..Len(comparison) |->
                             Marks(Plotted(comparison[c]), uniqueYears,
                                   Min(allValues),
                                   Range(Min(allValues), Max(allValues))) ]]

\* React renders the component for its data prop
renderGraph ==
  /\ graph.view = "none"
  /\ graph' = ComparisonGraph(graphData)
  /\ UNCHANGED << pageVars, unanswered, chat, graphData, pageGraph, statistics, app >>

(* ---------------------------------------------------------------------- *)
(* The chart of the page (function ComparisonGraph of the page's file):   *)
(* no validation of years or values                                       *)
(* ---------------------------------------------------------------------- *)
\* a JavaScript number: NaN, or a finite number
NaN == [nan |-> TRUE, n |-> 0]
Finite(k) == [nan |-> FALSE, n |-> k]
\* the conversion Math.min and Math.max apply to an argument: null is 0,
\* undefined and a string that spells no number are NaN
ToNumber(v) ==
  IF v.t = "null" THEN Finite(0)
  ELSE IF isNaN(v) THEN NaN
  ELSE Finite(Number(v))
\* colleges.flatMap(c => (c.trend || []).map(t => t.value)), converted
PageValues(comparison) == { ToNumber(t.value) : t \in PointsOf(comparison) }
\* Math.min(...allValues) and Math.max(...allValues): NaN when an argument is
MathMin(S) ==
  IF NaN \in S THEN NaN ELSE Finite(Min({ x.n : x \in S }))
MathMax(S) ==
  IF NaN \in S THEN NaN ELSE Finite(Max({ x.n : x \in S }))
\* x + k; Math.floor and Math.ceil leave the whole numbers of the inputs alone
Plus(x, k) == IF x.nan THEN NaN ELSE Finite(x.n + k)
\* maxVal - minVal || 1: NaN and 0 are falsy
PageRange(minVal, maxVal) ==
  IF minVal.nan \/ maxVal.nan \/ maxVal.n - minVal.n = 0 THEN 1
  ELSE maxVal.n - minVal.n
PageNotRendered ==
  [view |-> "none", points |-> 0, minVal |-> Finite(0), maxVal |-> Finite(0),
   range |-> 0, marks |-> << >>]
\* padding.left + (i / (trend.length - 1)) * chartWidth, for i from 0: the
\* only point of a trend of length 1 gets 0 / 0, which is NaN
PageXOf(i, length) ==
  IF length - 1 = 0
  THEN [nan |-> TRUE, num |-> 0, den |-> 1]
  ELSE [nan |-> FALSE, num |-> paddingLeft * (length - 1) + i * chartWidth,
        den |-> length - 1]
\* the x and the year of the circles of a college, in the order of its trend
PageMarks(trend) ==
  [ i \in 1..Len(trend) |-> [x |-> PageXOf(i - 1, Len(trend)), year |-> trend[i].year] ]
\* what the page's ComparisonGraph({ data }) returns: allYears has a member
\* as soon as a college has a point
PageComparisonGraph(data) ==
  IF ~data.present \/ Len(data.comparison) = 0
  THEN [PageNotRendered EXCEPT !.view = "No comparison data available"]
  ELSE LET comparison == data.comparison
           allValues == PageValues(comparison)
       IN  IF PointsOf(comparison) = {}
           THEN [PageNotRendered EXCEPT !.view = "No trend data available"]
           ELSE LET minVal == Plus(MathMin(allValues), -2)
                    maxVal == Plus(MathMax(allValues), 2)
                IN  [view |-> "chart",
                     points |-> Cardinality(PointsOf(comparison)),
                     minVal |-> minVal,
                     maxVal |-> maxVal,
                     range |-> PageRange(minVal, maxVal),
                     marks |-> [ c \in 1..Len(comparison) |->
                                 PageMarks(TrendOf(comparison[c])) ]]
\* React renders the page's component for its data prop
renderPageGraph ==
  /\ pageGraph.view = "none"
  /\ pageGraph' = PageComparisonGraph(graphData)
  /\ UNCHANGED << pageVars, unanswered, chat, graphData, graph, statistics, app >>

(* ---------------------------------------------------------------------- *)
(* The Average of the Detailed Statistics panel of the page               *)
(* ---------------------------------------------------------------------- *)
\* the power of ten that shifts a string of digits left by the digits of v
Shift(v) ==
  IF v < 10 THEN 10 ELSE IF v < 100 THEN 100 ELSE IF v < 1000 THEN 1000 ELSE 10000
\* sum + t.value as JavaScript computes it. The sum is a number, NaN, a string
\* of digits (its number is n), or a string that spells no number ("text").
\* number + null adds 0, number + undefined is NaN, and + with a string
\* concatenates the two as strings
Add(sum, v) ==
  CASE sum.t = "number" /\ v.t = "number" -> [t |-> "number", n |-> sum.n + v.n]
    [] sum.t = "number" /\ v.t = "null" -> sum
    [] sum.t = "number" /\ v.t = "undefined" -> [t |-> "nan", n |-> 0]
    [] sum.t = "number" /\ v.t = "string" /\ v.s = "" -> [t |-> "digits", n |-> sum.n]
    [] sum.t = "number" /\ v.t = "string" /\ v.s = "2022" ->
         [t |-> "digits", n |-> sum.n * 10000 + 2022]
    [] sum.t = "nan" /\ v.t # "string" -> sum
    [] sum.t = "digits" /\ v.t = "number" ->
         [t |-> "digits", n |-> sum.n * Shift(v.n) + v.n]
    [] sum.t = "digits" /\ v.t = "string" /\ v.s = "" -> sum
    [] sum.t = "digits" /\ v.t = "string" /\ v.s = "2022" ->
         [t |-> "digits", n |-> sum.n * 10000 + 2022]
    [] OTHER -> [t |-> "text", n |-> 0]
\* trend.reduce((sum, t) => sum + t.value, 0)
RECURSIVE Reduce(_)
Reduce(trend) ==
  IF trend = << >> THEN [t |-> "number", n |-> 0]
  ELSE Add(Reduce(SubSeq(trend, 1, Len(trend) - 1)), trend[Len(trend)].value)
\* (num / den).toFixed(2), in hundredths
ToFixed2(num, den) == (200 * num + den) \div (2 * den)
\* the Average cell of a college: 'N/A', 'NaN', or a number of hundredths.
\* The division converts a string of digits to its number
Average(college) ==
  IF college.hasTrend /\ Len(college.trend) > 0
  THEN LET sum == Reduce(college.trend) IN
       IF sum.t \in { "number", "digits" }
       THEN [text |-> "number", hundredths |-> ToFixed2(sum.n, Len(college.trend))]
       ELSE [text |-> "NaN", hundredths |-> 0]
  ELSE [text |-> "N/A", hundredths |-> 0]
\* the panel is rendered when comparisonData is set:
\* {comparisonData.comparison && comparisonData.comparison.map(...)}
renderStatistics ==
  /\ ~statistics.rendered
  /\ graphData.present
  /\ statistics' = [rendered |-> TRUE,
                    average |-> [ c \in 1..Len(graphData.comparison) |->
                                  Average(graphData.comparison[c]) ]]
  /\ UNCHANGED << pageVars, unanswered, chat, graphData, graph, pageGraph, app >>

(* ---------------------------------------------------------------------- *)
(* What is on screen: a handler runs only when the control that calls it  *)
(* is rendered and enabled                                                *)
(* ---------------------------------------------------------------------- *)
\* {loading.initial ? <spinner> : <panels>}
PageVisible == mounted /\ ~loading.initial
\* {colleges.length > 0 && searchQuery && ...}
SearchResultsVisible == Len(colleges) > 0 /\ Truthy(searchQuery)
\* disabled={selectedColleges.find(c => c.college_code === (college.college_code || college.code))}
CollegeButtonEnabled(college) ==
  ~\E i \in 1..Len(selectedColleges) :
      selectedColleges[i].college_code = Or(college.college_code, college.code)
\* {selectedColleges.length >= 2 && ...} and {loading.branches ? <spinner> : ...}
BranchSelectVisible == Len(selectedColleges) >= 2 /\ ~loading.branches
\* disabled={!selectedBranch || loading.compare}
CompareButtonEnabled == Truthy(selectedBranch) /\ ~loading.compare

(* ---------------------------------------------------------------------- *)
(* The page as the user drives it.  The user types at most one character  *)
(* in the search box, which shows the initially loaded list and sends no  *)
(* request; SpecSearch below covers the searches that do.                 *)
(* ---------------------------------------------------------------------- *)
ShortQueries == { q \in Queries : StrLen(q) = 1 }
BranchValues == { "", "CS", "IT" }

\* the part of the state space explored: n requests issued at most
Within(n) ==
  /\ InFlight' <= MaxInFlight
  /\ requests' <= n
  /\ timers' <= MaxTimers
\* the same with one request fewer in flight
WithinUnhurried(n) == Within(n) /\ InFlight' < MaxInFlight

Next ==
  \/ loadInitialColleges
  \/ PageVisible /\ \E q \in ShortQueries : q # searchQuery /\ handleSearch(q)
  \/ /\ PageVisible
     /\ SearchResultsVisible
     /\ \E i \in 1..Len(colleges) :
          /\ CollegeButtonEnabled(colleges[i])
          /\ selectCollege(colleges[i])
          /\ Within(MaxRequests)
  \/ /\ PageVisible
     /\ \E i \in 1..Len(selectedColleges) :
          removeCollege(selectedColleges[i].college_code) /\ Within(MaxRequests)
  \/ PageVisible /\ BranchSelectVisible /\ \E v \in BranchValues : chooseBranch(v)
  \/ /\ PageVisible
     /\ BranchSelectVisible
     /\ CompareButtonEnabled
     /\ handleCompare
     /\ Within(MaxRequests)
  \/ PageVisible /\ dismissError
  \/ errorTimeout
  \/ searchResponse
  \/ branchesResponse
  \/ compareResponse

Spec == Init /\ [][Next]_vars

(* ---------------------------------------------------------------------- *)
(* The handlers called directly, whatever is on screen (removeCollege     *)
(* left out)                                                              *)
(* ---------------------------------------------------------------------- *)
NextCalls ==
  \/ loadInitialColleges
  \/ \E c \in Colleges : selectCollege(c) /\ Within(MaxRequests)
  \/ \E v \in BranchValues : chooseBranch(v)
  \/ handleCompare /\ Within(MaxRequests)
  \/ errorTimeout
  \/ searchResponse
  \/ branchesResponse
  \/ compareResponse

SpecCalls == Init /\ [][NextCalls]_vars

(* ---------------------------------------------------------------------- *)
(* Comparing, with every answer the backend may give and one request more *)
(* (the colleges are selected in the order of the loaded list, the branch *)
(* is the one selected automatically)                                     *)
(* ---------------------------------------------------------------------- *)
NextAnswers ==
  \/ loadInitialColleges
  \/ /\ Len(selectedColleges) < Len(colleges)
     /\ selectCollege(colleges[Len(selectedColleges) + 1])
     /\ Within(MaxRequests + 1)
  \/ handleCompare /\ Within(MaxRequests + 1)
  \/ searchResponse
  \/ branchesResponse
  \/ anyCompareResponse

SpecAnswers == Init /\ [][NextAnswers]_vars

(* ---------------------------------------------------------------------- *)
(* Selecting colleges of the loaded list and removing them, with one      *)
(* request more and one fewer in flight                                   *)
(* ---------------------------------------------------------------------- *)
NextSelection ==
  \/ loadInitialColleges
  \/ /\ PageVisible
     /\ \E i \in 1..Len(colleges) :
          /\ CollegeButtonEnabled(colleges[i])
          /\ selectCollege(colleges[i])
          /\ WithinUnhurried(MaxRequests + 1)
  \/ /\ PageVisible
     /\ \E i \in 1..Len(selectedColleges) :
          /\ removeCollege(selectedColleges[i].college_code)
          /\ WithinUnhurried(MaxRequests + 1)
  \/ errorTimeout
  \/ searchResponse
  \/ branchesResponse

SpecSelection == Init /\ [][NextSelection]_vars

(* ---------------------------------------------------------------------- *)
(* Resolving branches, with every answer the backend may give and one     *)
(* request more (the colleges are selected in the order of the loaded     *)
(* list)                                                                  *)
(* ---------------------------------------------------------------------- *)
NextBranches ==
  \/ loadInitialColleges
  \/ /\ Len(selectedColleges) < Len(colleges)
     /\ selectCollege(colleges[Len(selectedColleges) + 1])
     /\ Within(MaxRequests + 1)
  \/ \E i \in 1..Len(selectedColleges) :
       /\ removeCollege(selectedColleges[i].college_code)
       /\ Within(MaxRequests + 1)
  \/ \E v \in BranchValues : chooseBranch(v)
  \/ dismissError
  \/ searchResponse
  \/ anyBranchesResponse

SpecBranches == Init /\ [][NextBranches]_vars

(* ---------------------------------------------------------------------- *)
(* The page and the chat widget with a server that may stay silent: every *)
(* answer that is sent arrives, and the timeout of the chat client fires  *)
(* ---------------------------------------------------------------------- *)
NextSilence ==
  \/ loadInitialColleges
  \/ /\ PageVisible
     /\ Len(selectedColleges) < Len(colleges)
     /\ selectCollege(colleges[Len(selectedColleges) + 1])
     /\ Within(MaxRequests)
  \/ /\ PageVisible
     /\ BranchSelectVisible
     /\ CompareButtonEnabled
     /\ handleCompare
     /\ Within(MaxRequests)
  \/ searchResponse
  \/ branchesResponse
  \/ compareResponse
  \/ noResponse
  \/ TextareaEnabled /\ \E text \in ChatInputs : typeMessage(text)
  \/ TextareaEnabled /\ handleSend /\ ChatWithin
  \/ chatResponse
  \/ chatTimeout
  \/ healthResponse
  \/ statusResponse
  \/ homeResponse

\* the chat widget on its own: typing, Enter and the Send button, Refresh,
\* and the answers to its requests
NextChat ==
  \/ TextareaEnabled /\ \E text \in ChatInputs : typeMessage(text)
  \/ TextareaEnabled /\ handleSend /\ ChatWithin
  \/ SendButtonEnabled /\ handleSend /\ ChatWithin
  \/ ~chat.refreshed /\ refreshConnection   \* Refresh is pressed once
  \/ chatResponse
  \/ chatTimeout
  \/ healthResponse
  \/ statusResponse
  \/ homeResponse

SpecChat ==
  /\ Init
  /\ [][NextChat]_vars
  /\ WF_vars(chatTimeout)
  /\ WF_vars(healthResponse)
  /\ WF_vars(statusResponse)
  /\ WF_vars(homeResponse)

\* the application from its start: the routes, the widget and the ChatBot in it
InitApp ==
  /\ InitCompare
  /\ chat = NoChatBot
  /\ app \in { [loading |-> TRUE, user |-> FALSE, path |-> path, isOpen |-> FALSE,
                abandoned |-> 0] : path \in Paths }
  /\ graphData = [present |-> FALSE, comparison |-> << >>]
  /\ pageGraph = PageNotRendered
  /\ graph = NotRendered
  /\ statistics = [rendered |-> FALSE, average |-> << >>]

NextApp ==
  \/ \E user \in BOOLEAN : authLoaded(user)
  \/ authChanged
  \/ \E path \in Paths : navigate(path)
  \/ redirect
  \/ openWidget
  \/ closeWidget
  \/ abandonedSettled
  \/ OnPage /\ TextareaEnabled /\ \E text \in ChatInputs : typeMessage(text)
  \/ OnPage /\ TextareaEnabled /\ handleSend /\ ChatWithin
  \/ OnPage /\ SendButtonEnabled /\ handleSend /\ ChatWithin
  \/ OnPage /\ chatResponse
  \/ OnPage /\ chatTimeout
  \/ OnPage /\ healthResponse
  \/ OnPage /\ statusResponse
  \/ OnPage /\ homeResponse

SpecApp == InitApp /\ [][NextApp]_vars

SpecSilence ==
  /\ Init
  /\ [][NextSilence]_vars
  /\ WF_vars(searchResponse)
  /\ WF_vars(branchesResponse)
  /\ WF_vars(compareResponse)
  /\ WF_vars(chatTimeout)
  /\ WF_vars(healthResponse)
  /\ WF_vars(statusResponse)
  /\ WF_vars(homeResponse)

(* ---------------------------------------------------------------------- *)
(* The chart rendered for every data prop of the inputs                   *)
(* ---------------------------------------------------------------------- *)
InitGraph ==
  /\ InitPage
  /\ graphData \in GraphInputs
  /\ graph = NotRendered
  /\ pageGraph = PageNotRendered
  /\ statistics = [rendered |-> FALSE, average |-> << >>]

NextGraph ==
  \/ renderGraph
  \/ renderPageGraph

SpecGraph == InitGraph /\ [][NextGraph]_vars

\* the statistics panel rendered for the same inputs
SpecStatistics == InitGraph /\ [][renderStatistics]_vars

(* ---------------------------------------------------------------------- *)
(* The search box on its own                                              *)
(* ---------------------------------------------------------------------- *)
NextSearch ==
  \/ loadInitialColleges
  \/ \E q \in Queries : handleSearch(q) /\ Within(MaxRequests)
  \/ dismissError
  \/ searchResponse

SpecSearch == Init /\ [][NextSearch]_vars

(* ====================================================================== *)
(* Properties                                                             *)
(* ====================================================================== *)

(* C1: at most 3 colleges are ever selected, and a selectCollege call made *)
(* while 3 are selected leaves the selection as it is and sets a message.  *)
C1_AtMostThreeSelected ==
  /\ [](Len(selectedColleges) <= 3)
  /\ [][ \A c \in Colleges :
           (Len(selectedColleges) = 3 /\ selectCollege(c))
             => (selectedColleges' = selectedColleges /\ Truthy(error')) ]_vars
\* a fourth college was refused
C1_FourthRefused ==
  Len(selectedColleges) = 3 /\ error = "Maximum 3 colleges can be selected"

(* C2: selectCollege with a college whose college_code is that of a        *)
(* selected college changes neither the selection nor the requests in      *)
(* flight and sets the message; no two selected colleges share a           *)
(* college_code.                                                           *)
NoSharedIdentifier ==
  \A i, j \in 1..Len(selectedColleges) :
    i # j => selectedColleges[i].college_code # selectedColleges[j].college_code
C2_DuplicateRefused ==
  /\ []NoSharedIdentifier
  /\ [][ \A c \in Colleges :
           ( /\ \E i \in 1..Len(selectedColleges) :
                  selectedColleges[i].college_code = c.college_code
             /\ selectCollege(c) )
             => /\ selectedColleges' = selectedColleges
                /\ pending' = pending
                /\ requests' = requests
                /\ error' = "This college is already selected" ]_vars
\* college A, the only one selected, was selected again and refused
C2_SecondARefused ==
  /\ Len(selectedColleges) = 1
  /\ selectedColleges[1].college_code = "A"
  /\ error = "This college is already selected"

(* C3: a comparison result on display answers a compare request for the    *)
(* colleges and the branch that are selected now.                          *)
C3_ResultMatchesSelection ==
  comparisonData # NULL =>
    /\ comparisonData.college_codes = CodesOf(selectedColleges)
    /\ comparisonData.branch_code = selectedBranch

(* C4: every step that changes the selection or the selected branch sets   *)
(* comparisonData to null.                                                 *)
C4_ChangeClearsResult ==
  [][ (selectedColleges' # selectedColleges \/ selectedBranch' # selectedBranch)
        => comparisonData' = NULL ]_vars

(* C5: with fewer than 2 colleges selected, the branch list and the        *)
(* selected branch are empty.                                              *)
C5_NoBranchesBelowTwo ==
  Len(selectedColleges) < 2 => (branches = <<>> /\ selectedBranch = "")

(* C6: removeCollege of one of exactly 2 selected colleges leaves 1        *)
(* college, no branches, no selected branch, no comparison result, and     *)
(* issues no request.                                                      *)
C6_RemoveOfTwoClears ==
  [][ \A i \in 1..Len(selectedColleges) :
        (Len(selectedColleges) = 2 /\ removeCollege(selectedColleges[i].college_code))
          => /\ Len(selectedColleges') = 1
             /\ branches' = <<>>
             /\ selectedBranch' = ""
             /\ comparisonData' = NULL
             /\ pending' = pending
             /\ requests' = requests ]_vars
\* one college is left of a selection that had been compared
C6_RemovedAfterCompare ==
  /\ Len(selectedColleges) = 1
  /\ latest.compare = "ok"
  /\ comparisonData = NULL
  /\ branches = <<>>
  /\ selectedBranch = ""

(* C7: once no branch resolution is in flight, and no response of an       *)
(* outdated resolution was applied, the selected branch is empty or the    *)
(* code of a branch returned for the current selection.                    *)
C7_BranchOfCurrentSelection ==
  (pending.branches = <<>> /\ shown.branches # "stale") =>
    \/ selectedBranch = ""
    \/ \E i \in 1..Len(returned) : BranchCode(returned[i]) = selectedBranch

(* C8: for each kind of request, once none is in flight and the request    *)
(* issued last has succeeded, the response applied last to the view is not *)
(* that of an earlier request.                                             *)
C8_LaterRequestWins ==
  \A k \in Kinds :
    (pending[k] = <<>> /\ latest[k] = "ok") => shown[k] # "stale"

(* C9: handleCompare called with fewer than 2 colleges selected or with no *)
(* branch chosen issues no request, leaves comparisonData as it is and     *)
(* sets the validation message of the case.                                *)
C9_ValidationBeforeRequest ==
  [][ (handleCompare /\ (Len(selectedColleges) < 2 \/ ~Truthy(selectedBranch)))
        => /\ pending' = pending
           /\ requests' = requests
           /\ comparisonData' = comparisonData
           /\ error' = IF Len(selectedColleges) < 2
                       THEN "Please select at least 2 colleges"
                       ELSE "Please select a branch" ]_vars
\* a comparison is on display and handleCompare was refused for want of a branch
C9_RefusedWithoutBranch ==
  error = "Please select a branch" /\ comparisonData # NULL

(* C10: a compare that fails (a non-2xx response, or a 2xx body whose      *)
(* success is not true) leaves comparisonData null and displays: for a     *)
(* non-2xx response the body's message, else its error, else `HTTP         *)
(* <status>: Comparison failed`; for a 2xx body its error, else `Failed to *)
(* compare colleges - invalid response format` (a field counts when it is  *)
(* a non-empty string).                                                    *)
FailedCompare(resp) ==
  resp.kind = "http" \/ (resp.kind = "body" /\ resp.body.success # "true")
GenericTexts ==
  { "HTTP " \o ToString(st) \o ": Comparison failed" : st \in Statuses }
  \cup { "Failed to compare colleges - invalid response format",
         "Failed to compare colleges" }
C11_OneBranchRequestPerSelect ==
  [][ \A c \in Colleges :
        ( /\ selectCollege(c)
          /\ Len(selectedColleges) < 3
          /\ \A i \in 1..Len(selectedColleges) :
               selectedColleges[i].college_code # c.college_code )
          => IF Len(selectedColleges) = 0
             THEN pending' = pending /\ requests' = requests
             ELSE /\ requests' = requests + 1
                  /\ pending'.search = pending.search
                  /\ pending'.compare = pending.compare
                  /\ Len(pending'.branches) = Len(pending.branches) + 1
                  /\ SubSeq(pending'.branches, 1, Len(pending.branches))
                       = pending.branches
                  /\ LET codes == pending'.branches[Len(pending'.branches)].college_codes
                         n == Len(selectedColleges) IN
                     /\ Len(codes) = n + 1
                     /\ codes[n + 1] = c.college_code
                     /\ \A i \in 1..n : codes[i] = selectedColleges[i].college_code
    ]_vars
\* A then B were selected and the request for [A, B] is in flight
C11_RequestForAB ==
  /\ CodesOf(selectedColleges) = << "A", "B" >>
  /\ pending.branches = << [college_codes |-> << "A", "B" >>] >>

(* C12: when a branch request succeeds, the branch list becomes the        *)
(* returned list and, if that list is non-empty, the selected branch       *)
(* becomes the branch_code of its first entry, or its code when it has no  *)
(* branch_code.                                                            *)
C12_BranchesReplaced ==
  [][ \A i \in 1..Len(pending.branches) : \A l \in MoreBranchLists :
        loadBranchesSettled(i, TRUE, l)
          => /\ branches' = l
             /\ Len(l) > 0 =>
                  selectedBranch' = IF l[1].branch_code \notin { ABSENT, "" }
                                    THEN l[1].branch_code
                                    ELSE l[1].code ]_vars
\* a branch request issued after another one was answered with [CS]: the
\* list and the selected branch are those of the answer
C12_ListReplaced ==
  /\ branches = << BranchCS >>
  /\ selectedBranch = "CS"
  /\ latest.branches = "ok"
  /\ shown.branches = "latest"
  /\ requests > 2

(* C13: when a branch request fails, the step that handles the failure     *)
(* leaves the branch list and the selected branch as they are and sets the *)
(* message `Failed to load branches`.                                      *)
C13_FailureKeepsBranches ==
  [][ \A i \in 1..Len(pending.branches) :
        loadBranchesSettled(i, FALSE, << >>)
          => /\ branches' = branches
             /\ selectedBranch' = selectedBranch
             /\ error' = "Failed to load branches" ]_vars
\* the latest branch request failed and the earlier list and branch are kept
C13_KeptAfterFailure ==
  /\ latest.branches = "failed"
  /\ error = "Failed to load branches"
  /\ branches # << >>
  /\ selectedBranch # ""

(* C14: for each kind of request, the loading flag of the kind is true     *)
(* while a request of the kind is in flight.                               *)
C14_LoadingWhileInFlight ==
  \A k \in Kinds : pending[k] # << >> => loading[k]

(* C15: every request issued is eventually over: for each kind of page     *)
(* request, requests outstanding lead to none outstanding with the loading *)
(* flag of the kind false, and a chat request leads to isLoading false.    *)
C15_EveryRequestEnds ==
  /\ \A k \in Kinds :
       (Outstanding(k) > 0) ~> (Outstanding(k) = 0 /\ ~loading[k])
  /\ chat.isLoading ~> ~chat.isLoading

(* C16: an accepted handleCompare issues exactly one request, a compare    *)
(* request whose college_codes are those of the selected colleges in       *)
(* selection order and whose branch_code is the selected branch.           *)
C16_CompareRequestPayload ==
  [][ ( /\ handleCompare
        /\ Len(selectedColleges) >= 2
        /\ selectedBranch \notin { ABSENT, "" } )
        => /\ requests' = requests + 1
           /\ pending'.search = pending.search
           /\ pending'.branches = pending.branches
           /\ Len(pending'.compare) = Len(pending.compare) + 1
           /\ SubSeq(pending'.compare, 1, Len(pending.compare)) = pending.compare
           /\ LET req == pending'.compare[Len(pending'.compare)] IN
              /\ req.branch_code = selectedBranch
              /\ Len(req.college_codes) = Len(selectedColleges)
              /\ \A i \in 1..Len(selectedColleges) :
                   req.college_codes[i] = selectedColleges[i].college_code
    ]_vars
\* CS was chosen in the dropdown instead of the branch selected
\* automatically, and the request for A, B and CS is in flight
C16_RequestForABWithCS ==
  /\ selectedBranch = "CS"
  /\ pending.compare = << [college_codes |-> << "A", "B" >>, branch_code |-> "CS"] >>

(* ---------------------------------------------------------------------- *)
(* Properties of the chart                                                *)
(* ---------------------------------------------------------------------- *)
\* the trend points of the c-th college of the data prop
GivenPoints(c) ==
  IF graphData.comparison[c].hasTrend
  THEN { graphData.comparison[c].trend[i] :
           i \in 1..Len(graphData.comparison[c].trend) }
  ELSE {}
\* a year or value that is a number, or a string that spells one
Numeric(v) == v.t = "number" \/ (v.t = "string" /\ v.s = "2022")
ValueOf(v) == IF v.t = "number" THEN v.n ELSE 2022
\* the years that are numeric, of one college and of all
YearsOf(c) == { ValueOf(t.year) : t \in { u \in GivenPoints(c) : Numeric(u.year) } }
YearsGiven ==
  IF graphData.present
  THEN UNION { YearsOf(c) : c \in 1..Len(graphData.comparison) }
  ELSE {}
EmptyStates ==
  { "No comparison data available",
    "No valid trend data available. Check if CSV has year data.",
    "No valid percentile values found in data" }

NumericPoints(c) == { t \in GivenPoints(c) : Numeric(t.year) /\ Numeric(t.value) }
\* two series, each with valid points, and no year in both
NoCommonYear ==
  /\ graphData.present
  /\ Len(graphData.comparison) = 2
  /\ NumericPoints(1) # {}
  /\ NumericPoints(2) # {}
  /\ YearsOf(1) \cap YearsOf(2) = {}
PageEmptyStates ==
  { "No comparison data available", "No trend data available" }

(* C18: for colleges whose trend series share no year, each with valid    *)
(* points, each chart renderer shows an empty state, not a chart.          *)
C18_NoCommonYearEmptyState ==
  NoCommonYear =>
    /\ graph.view # "none" => graph.view \in EmptyStates
    /\ pageGraph.view # "none" => pageGraph.view \in PageEmptyStates

\* the numeric values of all the points given
ValuesGiven ==
  UNION { { ValueOf(t.value) : t \in { u \in GivenPoints(c) : Numeric(u.value) } } :
          c \in 1..Len(graphData.comparison) }
\* the points drawn for the c-th college
DrawnPoints(c) == { graph.lines[c][i] : i \in 1..Len(graph.lines[c]) }
\* a point as it is drawn
Drawn(t) == [year |-> ValueOf(t.year), value |-> ValueOf(t.value)]
\* the extremes are those of the numeric values
ScaledByNumericValues ==
  /\ graph.minVal = Min(ValuesGiven)
  /\ graph.maxVal = Max(ValuesGiven)
\* every point drawn is a point given with a numeric value
OnlyNumericValuesDrawn ==
  \A c \in 1..Len(graphData.comparison) :
    \A p \in DrawnPoints(c) :
      \E t \in GivenPoints(c) : Numeric(t.value) /\ Numeric(t.year) /\ Drawn(t) = p
\* every point given with a numeric year and value is drawn
NumericPointsDrawn ==
  \A c \in 1..Len(graphData.comparison) :
    \A t \in NumericPoints(c) : Drawn(t) \in DrawnPoints(c)

(* C19: in a rendered chart, a point whose value is undefined, null or not *)
(* numeric contributes to neither minVal nor maxVal and is not drawn, and  *)
(* the other, valid, points of its college are drawn.                      *)
C19_InvalidValuesLeftOut ==
  (graph.view = "chart" /\ ValuesGiven # {}) =>
    /\ ScaledByNumericValues
    /\ OnlyNumericValuesDrawn
    /\ NumericPointsDrawn

(* C20: the range that divides in the vertical scaling of a rendered chart *)
(* is at least 1 and at least the difference of maxVal and minVal; it is 1 *)
(* when minVal and maxVal are equal. This holds for both renderers.        *)
C20_RangeAtLeastOne ==
  /\ graph.view = "chart" =>
       /\ graph.range >= 1
       /\ graph.range >= graph.maxVal - graph.minVal
       /\ graph.minVal = graph.maxVal => graph.range = 1
  /\ pageGraph.view = "chart" =>
       /\ pageGraph.range >= 1
       /\ ~pageGraph.minVal.nan /\ ~pageGraph.maxVal.nan =>
            pageGraph.range = pageGraph.maxVal.n - pageGraph.minVal.n
\* all the values are 50: the range is 1, and 52 - 48 in the page's chart
C20_EqualExtremes ==
  /\ graph.view = "chart"
  /\ ValuesGiven = { 50 }
  /\ graph.minVal = graph.maxVal
  /\ graph.range = 1
  /\ pageGraph.view = "chart"
  /\ pageGraph.range = 4

\* a < b and a = b for coordinates
Less(a, b) == a.num * b.den < b.num * a.den
Same(a, b) == a.num * b.den = b.num * a.den
\* every point drawn: its college, year, value and coordinates
AllDrawn ==
  UNION { { [c |-> c, year |-> graph.lines[c][i].year,
             value |-> graph.lines[c][i].value,
             x |-> graph.marks[c][i].x, y |-> graph.marks[c][i].y] :
              i \in 1..Len(graph.lines[c]) } :
          c \in 1..Len(graph.lines) }
\* the position of a year in the domain, counted from 0
YearPosition(year) ==
  Cardinality({ i \in 1..Len(graph.uniqueYears) : graph.uniqueYears[i] < year })
\* the x of the k-th of n positions spread over the width of the chart
XAt(k, n) ==
  IF n > 1 THEN Fraction(paddingLeft * (n - 1) + k * chartWidth, n - 1)
  ELSE Fraction(paddingLeft, 1)

(* C21: in a rendered chart, the x of every point drawn is that of the     *)
(* position of its year in uniqueYears, so that points of the same year    *)
(* have the same x whatever their college; of two points drawn, the one    *)
(* with the larger value has the smaller y, and every y lies between the   *)
(* top and the bottom of the chart area.                                   *)
C21_PositionByYear ==
  graph.view = "chart" =>
    /\ \A p \in AllDrawn : Same(p.x, XAt(YearPosition(p.year), Len(graph.uniqueYears)))
    /\ \A p, q \in AllDrawn :
         /\ p.year = q.year => Same(p.x, q.x)
         /\ p.value > q.value => Less(p.y, q.y)
    /\ \A p \in AllDrawn :
         /\ ~Less(p.y, Fraction(paddingTop, 1))
         /\ ~Less(Fraction(graphHeight - paddingBottom, 1), p.y)
\* two colleges: the second has 2022 and 2023 of the domain 2021, 2022, 2023,
\* and its 2023 is drawn where the 2023 of the first is, lower than its 2022
C21_SameYearSameX ==
  /\ graph.view = "chart"
  /\ graph.uniqueYears = << 2021, 2022, 2023 >>
  /\ \E p, q, r \in AllDrawn :
       /\ p.c = 1 /\ q.c = 2 /\ r.c = 2
       /\ p.year = 2023 /\ q.year = 2023 /\ r.year = 2022
       /\ p.x = q.x
       /\ q.x = Fraction(1340, 2) /\ r.x = Fraction(730, 2)
       /\ Less(r.y, q.y)

\* how many points of the c-th college have a numeric year and value
NumericCount(c) ==
  LET trend == TrendOf(graphData.comparison[c]) IN
  Cardinality({ i \in 1..Len(trend) : Numeric(trend[i].year) /\ Numeric(trend[i].value) })
\* the marker of the only valid point of the c-th college, at its year
SingleMarker(c) ==
  /\ Len(graph.marks[c]) = 1
  /\ \A t \in NumericPoints(c) :
       /\ graph.lines[c] = << Drawn(t) >>
       /\ Same(graph.marks[c][1].x,
               XAt(YearPosition(ValueOf(t.year)), Len(graph.uniqueYears)))

(* C22: when one college has two or more valid points and another exactly *)
(* one, the chart is rendered over the union of their years and the        *)
(* college with one valid point has a single marker at its year.           *)
C22_SinglePointMarker ==
  \A a, b \in 1..Len(graphData.comparison) :
    (graph.view # "none" /\ NumericCount(a) >= 2 /\ NumericCount(b) = 1) =>
      /\ graph.view = "chart"
      /\ { graph.uniqueYears[i] : i \in 1..Len(graph.uniqueYears) } = YearsGiven
      /\ SingleMarker(b)

\* every circle the page's chart draws
PageDrawn ==
  UNION { { pageGraph.marks[c][i] : i \in 1..Len(pageGraph.marks[c]) } :
          c \in 1..Len(pageGraph.marks) }
\* the years and values given are all numbers
AllNumbers ==
  \A c \in 1..Len(graphData.comparison) :
    \A t \in GivenPoints(c) : t.year.t = "number" /\ t.value.t = "number"
\* the position of a year among the years given, counted from 0
PositionGiven(year) == Cardinality({ y \in YearsGiven : y < year })

(* C23: in the chart the page renders, the x of every point is a finite   *)
(* number, that of the position of its year among the years of all the     *)
(* colleges (checked for trends whose years and values are numbers).       *)
C23_PageChartByYear ==
  (pageGraph.view = "chart" /\ AllNumbers) =>
    \A p \in PageDrawn :
      /\ ~p.x.nan
      /\ Same(p.x, XAt(PositionGiven(p.year.n), Cardinality(YearsGiven)))

\* the numeric values of the c-th college, one for each point that has one
NumericValuesOf(c) ==
  LET trend == TrendOf(graphData.comparison[c]) IN
  { << i, ValueOf(trend[i].value) >> :
      i \in { k \in 1..Len(trend) : Numeric(trend[k].value) } }
RECURSIVE SumOf(_)
SumOf(S) ==
  IF S = {} THEN 0
  ELSE LET e == CHOOSE x \in S : TRUE IN e[2] + SumOf(S \ { e })

(* C24: the Average shown for a college is the mean of its numeric trend  *)
(* values, to two decimals, and is 'N/A' when it has no numeric value.     *)
C24_AverageOfValidValues ==
  statistics.rendered =>
    \A c \in 1..Len(graphData.comparison) :
      IF NumericValuesOf(c) = {}
      THEN statistics.average[c].text = "N/A"
      ELSE /\ statistics.average[c].text = "number"
           /\ statistics.average[c].hundredths =
                ToFixed2(SumOf(NumericValuesOf(c)), Cardinality(NumericValuesOf(c)))

\* the messages of a refused selectCollege, which start the 3 second timer
SelectRefusals ==
  { "This college is already selected", "Maximum 3 colleges can be selected" }

(* C25: an error other than the refusal of a select stays displayed when   *)
(* the timer started by an earlier refused select fires: the timer does     *)
(* not erase it.                                                            *)
C25_TimerKeepsLaterError ==
  [][ (errorTimeout /\ Truthy(error) /\ error \notin SelectRefusals)
        => error' = error ]_vars

(* ---------------------------------------------------------------------- *)
(* Properties of the chat widget                                          *)
(* ---------------------------------------------------------------------- *)
Unreachable == [kind |-> "unreachable", status |-> 0]
\* a handleSend is waiting for the checkBackendConnection() of its catch block
Rechecking == \E i \in 1..Len(chat.sends) : chat.sends[i].pc = "rechecking"
LastMessage == chat.messages[Len(chat.messages)]

(* C26: when POST /chat gets no response, the step that handles the failure *)
(* appends the bot message with the troubleshooting tips and starts a run   *)
(* of checkBackendConnection while the send is still under way; isLoading   *)
(* is true as long as the send waits for that run, and becomes false in the *)
(* step in which the run completes.                                         *)
C26_NoResponseRecheck ==
  /\ [][ \A i \in 1..Len(chat.sends) :
           chatSettled(i, Unreachable) =>
             /\ chat'.messages = Append(chat.messages, BotMessage(CannotConnect \o Tips))
             /\ chat'.checks = Append(chat.checks, NewCheck("send"))
             /\ Len(chat'.sends) = Len(chat.sends)
             /\ chat'.sends[i].pc = "rechecking"
             /\ chat'.isLoading ]_vars
  /\ [](Rechecking => chat.isLoading)
  /\ [][ (Rechecking /\ ~Rechecking') =>
           /\ Len(chat'.checks) < Len(chat.checks)
           /\ ~chat'.isLoading ]_vars
\* the tips are the last message and the send waits for the check
C26_TipsAndRecheck ==
  /\ LastMessage = BotMessage(CannotConnect \o Tips)
  /\ Rechecking
  /\ chat.isLoading
  /\ \E r \in 1..Len(chat.checks) : chat.checks[r].owner = "send"

\* the statuses that getStatusDisplay shows as unavailable or as unknown
NotConnectedStatuses ==
  { status \in { "gemini_unavailable", "chat_endpoint_exists",
                 "chat_endpoint_missing", "unknown" } :
      StatusDisplay(status) \in { "AI Service Unavailable", "Unknown Status" } }
\* the r-th run of checkBackendConnection returns in this step
RunCompletes(r) ==
  /\ r \in 1..Len(chat.checks)
  /\ Len(chat'.checks) = Len(chat.checks) - 1

(* C27: in the step in which a run of checkBackendConnection returns, the   *)
(* status is 'connected' exactly when its GET /chat/status was answered     *)
(* with available true, 'disconnected' exactly when its GET /health and its *)
(* GET /chat/status both failed, and in every other case one of the         *)
(* statuses displayed as unavailable or unknown; it is never 'checking'.    *)
C27_StatusAfterCheck ==
  [][ \A r \in 1..Len(chat.checks) :
        /\ \A result \in StatusResults :
              (statusSettled(r, result) /\ RunCompletes(r)) =>
                /\ (chat'.backendStatus = "connected") <=> (result = "available")
                /\ (chat'.backendStatus = "disconnected")
                     <=> (result = "failed" /\ ~chat.checks[r].mainHealth)
                /\ chat'.backendStatus
                     \in { "connected", "disconnected" } \cup NotConnectedStatuses
        /\ \A result \in HomeResults :
              (homeSettled(r, result) /\ RunCompletes(r)) =>
                chat'.backendStatus \in NotConnectedStatuses ]_vars
\* a run in which both requests failed has returned
C27_BothFailed ==
  /\ chat.backendStatus = "disconnected"
  /\ chat.checks = << >>

\* the POST /chat requests in flight: those of the mounted ChatBot and those
\* of the instances unmounted before their answer
ChatRequestsInFlight == app.abandoned + Cardinality(Posting)

(* C28: at most one POST /chat request is in flight at any time, and a      *)
(* handleSend called while the trimmed input is empty or while an earlier   *)
(* send has not finished issues no request and appends no message.          *)
C28_OneChatRequestInFlight ==
  /\ [](ChatRequestsInFlight <= 1)
  /\ [][ ( /\ handleSend
           /\ \/ Trim(chat.inputMessage) = ""
              \/ ChatRequestsInFlight > 0
              \/ Rechecking )
         => ( /\ chat'.posted = chat.posted
              /\ chat'.messages = chat.messages ) ]_vars

\* the messages of the user, and those of the bot after its greeting
UserMessages == { k \in 1..Len(chat.messages) : chat.messages[k].sender = "user" }
BotAnswers == { k \in 2..Len(chat.messages) : chat.messages[k].sender = "bot" }
\* what the bot says after a send: the reply, or one of the texts of the catch
BotTexts ==
  { "reply", Apology, Apology \o TimedOut, CannotConnect \o Tips }
  \cup { StatusText(n) : n \in ChatStatuses }

(* C29: a handleSend that passes its guard appends the message of the user  *)
(* and sets isLoading; every message of the user is followed by exactly one *)
(* message of the bot, the reply or an error text, which is there as soon   *)
(* as POST /chat is over; after the n-th send the n-th answer of the bot is *)
(* eventually displayed with isLoading false; and every step leaves the     *)
(* messages already in the conversation in place.                           *)
C29_SendGetsOneAnswer ==
  /\ [][ (handleSend /\ ~SendRefused(chat.inputMessage, chat.isLoading)) =>
           /\ chat'.messages
                = Append(chat.messages, UserMessage(Trim(chat.inputMessage)))
           /\ chat'.isLoading ]_vars
  /\ [](\A k \in 2..Len(chat.messages) :
          /\ chat.messages[k].sender = (IF k % 2 = 0 THEN "user" ELSE "bot")
          /\ k \in BotAnswers => chat.messages[k].text \in BotTexts)
  /\ [](Cardinality(UserMessages) = Cardinality(BotAnswers) + Cardinality(Posting))
  /\ \A n \in 1..MaxSends :
       (Cardinality(UserMessages) = n)
         ~> (Cardinality(BotAnswers) = n /\ ~chat.isLoading)
  /\ [][ /\ Len(chat'.messages) >= Len(chat.messages)
         /\ SubSeq(chat'.messages, 1, Len(chat.messages)) = chat.messages ]_vars
\* a send has ended with an error text and isLoading is false again
C29_AnsweredWithError ==
  /\ Cardinality(UserMessages) = 1
  /\ Cardinality(BotAnswers) = 1
  /\ LastMessage.text = StatusText(500)
  /\ ~chat.isLoading
  /\ chat.sends = << >>

(* ---------------------------------------------------------------------- *)
(* Properties of the routes                                               *)
(* ---------------------------------------------------------------------- *)
ProtectedPaths ==
  { "/dashboard", "/profile", "/predictor", "/builder", "/compare", "/onboarding" }
ProtectedPages ==
  { "Dashboard", "Profile", "Predictor", "OptionFormBuilder", "CompareColleges",
    "ProfileOnboarding" }
PublicPaths == { "/", "/login", "/signup" }

(* C30: once the authentication state is loaded, no protected page is      *)
(* rendered without a user: every protected path renders a redirect to      *)
(* /login; with a user /login and /signup render a redirect to /dashboard;  *)
(* a path of no route renders a redirect to /; the redirect takes the       *)
(* location there; and the chat widget (its button or its modal, and so a   *)
(* mounted ChatBot) is rendered only with a user and on a path other than   *)
(* /, /login and /signup.                                                   *)
C30_GuardedRoutes ==
  /\ [](~app.loading =>
         /\ ~app.user => Rendered(app).route.name \notin ProtectedPages
         /\ (~app.user /\ app.path \in ProtectedPaths)
              => Rendered(app).route = Navigate("/login")
         /\ (app.user /\ app.path \in { "/login", "/signup" })
              => Rendered(app).route = Navigate("/dashboard")
         /\ app.path \notin ProtectedPaths \cup PublicPaths
              => Rendered(app).route = Navigate("/"))
  /\ []( (Rendered(app).widget # "null" \/ chat.messages # << >>)
           => (~app.loading /\ app.user /\ app.path \notin PublicPaths) )
  /\ [][ redirect =>
           app'.path = CASE app.path \in ProtectedPaths -> "/login"
                         [] app.path \in { "/login", "/signup" } -> "/dashboard"
                         [] OTHER -> "/" ]_vars
\* the user signed out on /compare with the assistant open: the route is the
\* redirect to /login and the widget is gone
C30_SignedOutOnCompare ==
  /\ ~app.loading
  /\ ~app.user
  /\ app.path = "/compare"
  /\ app.isOpen
  /\ Rendered(app).route = Navigate("/login")
  /\ Rendered(app).widget = "null"

====
